---- MODULE Spec2Model ----
(***************************************************************************)
(* Model of package zfs, file common.go (go-libzfs).                       *)
(*                                                                         *)
(* Part 1: the last-error bridge.  The process-wide libzfs handle holds a  *)
(* single last-error register (error number and description buffer).       *)
(* LastError() and ClearLastError() are modelled statement by statement,   *)
(* so that calls of several callers (goroutines) interleave where the Go   *)
(* code allows it: the code takes no lock.  C.GoString reads the engine's  *)
(* description buffer in two passes (length scan, then copy), one byte a   *)
(* step, so a read that races with a write of the register can return     *)
(* text that no single content of the buffer ever had.  A write of the     *)
(* register by libzfs is taken as one step.                                *)
(*                                                                         *)
(* Part 2: the pure part: the iota constant blocks, the String() methods   *)
(* and the error-code constants.                                           *)
(***************************************************************************)
EXTENDS Integers, Sequences, FiniteSets

\* ------------------------------------------------------------------ bounds
\* Number of concurrent callers of the package.
NumCallers == 2
\* Engine error numbers are 0 (none) and 1..MaxErrno (some failure).
MaxErrno == 2
\* Size in bytes of the engine's description buffer, terminating NUL included.
BufLen == 2
\* Bytes of a description are 0 (NUL) and 1..MaxChar.
MaxChar == 1
\* String() receivers are drawn from the defined values and RawSlack values
\* past each end of them (below zero for the signed type only).
RawSlack == 3

Callers == 1 .. NumCallers

VARIABLES
  libzfsHandle,  \* the engine handle: [libzfs_error, libzfs_desc]
  pc,            \* pc[c]: the source line caller c is about to execute
  fn,            \* fn[c]: the exported function caller c is inside
  err,           \* err[c]: ClearLastError's named result, set at line 400
  hist,          \* hist[c]: the last two operations c completed, newest first
  gostr,         \* gostr[c]: C.GoString in progress: bytes counted, bytes copied
  typ,           \* the type whose String() method ran last ("none": none yet)
  raw,           \* the receiver value of that call
  str,           \* the string that call returned
  errName,       \* the error constant evaluated last ("none": none yet)
  errVal         \* its value, an unbounded natural (see BigNat below)

engineVars == <<libzfsHandle, pc, fn, err, hist, gostr>>
pureVars == <<typ, raw, str, errName, errVal>>
vars ==
  <<libzfsHandle, pc, fn, err, hist, gostr, typ, raw, str, errName, errVal>>

\* ------------------------------------------------------------ Go values
\* A Go error value: nil, or an *errorString carrying a message.
NilErr == [nil |-> TRUE, msg |-> <<>>]

\* errors.New(text): a non-nil error whose Error() is text.
errorsNew(text) == [nil |-> FALSE, msg |-> text]

\* strlen of a NUL-terminated C buffer: the index before the first NUL.
strlen(buf) == (CHOOSE i \in 1 .. Len(buf) :
                   buf[i] = 0 /\ \A j \in 1 .. (i - 1) : buf[j] # 0) - 1

\* C.GoString on a buffer that nothing writes meanwhile: the bytes before
\* the first NUL, as a Go string.
GoString(buf) == SubSeq(buf, 1, strlen(buf))

\* ------------------------------------------------------------ the engine
\* The description buffers the engine can hold: NUL-terminated byte arrays
\* (bytes after the first NUL are leftovers of an earlier, longer text).
DescBuffers == {b \in [1 .. BufLen -> 0 .. MaxChar] : b[BufLen] = 0}

EmptyDesc == [i \in 1 .. BufLen |-> 0]

\* C.libzfs_errno(libzfsHandle)
libzfs_errno(hdl) == hdl.libzfs_error

\* C.libzfs_error_description(libzfsHandle): a char* into the engine.
libzfs_error_description(hdl) == hdl.libzfs_desc

\* C.clear_last_error(libzfsHandle): the register after the reset.
clear_last_error(hdl) == [libzfs_error |-> 0, libzfs_desc |-> EmptyDesc]

\* var libzfsHandle, func init(): libzfs_init() returns a zeroed handle.
libzfs_init == [libzfs_error |-> 0, libzfs_desc |-> EmptyDesc]

\* --------------------------------------------------------- bookkeeping
NoOp == [op |-> "none", res |-> NilErr]

\* Caller c has completed operation op with result res.
Completed(c, op, res) ==
  hist' = [hist EXCEPT ![c] = <<[op |-> op, res |-> res], hist[c][1]>>]

\* No C.GoString call in progress.
NoGoString == [n |-> 0, out |-> <<>>]

EngineInit ==
  /\ libzfsHandle = libzfs_init
  /\ pc = [c \in Callers |-> "idle"]
  /\ fn = [c \in Callers |-> "none"]
  /\ err = [c \in Callers |-> NilErr]
  /\ hist = [c \in Callers |-> <<NoOp, NoOp>>]
  /\ gostr = [c \in Callers |-> NoGoString]

\* ------------------------------------------------- operations on the handle
\* Any exported operation of the package that calls into libzfs with the
\* shared handle (pool and dataset operations).  The engine either succeeds,
\* leaving the register as it is, or fails and records error number e with
\* description d.  One cgo call, one step.
EngineOp(c) ==
  /\ pc[c] = "idle"
  /\ \E e \in 0 .. MaxErrno, d \in DescBuffers :
       IF e = 0
         THEN /\ UNCHANGED libzfsHandle
              /\ Completed(c, "EngineOp", NilErr)
         ELSE /\ libzfsHandle' = [libzfs_error |-> e, libzfs_desc |-> d]
              /\ Completed(c, "EngineOp", errorsNew(GoString(d)))
  /\ UNCHANGED <<pc, fn, err>>
  /\ UNCHANGED gostr
  /\ UNCHANGED pureVars

\* A caller enters LastError(): its first statement is line 391.
CallLastError(c) ==
  /\ pc[c] = "idle"
  /\ pc' = [pc EXCEPT ![c] = "L391"]
  /\ fn' = [fn EXCEPT ![c] = "LastError"]
  /\ UNCHANGED <<libzfsHandle, err, hist>>
  /\ UNCHANGED gostr
  /\ UNCHANGED pureVars

\* A caller enters ClearLastError(): line 400 calls LastError() first.
CallClearLastError(c) ==
  /\ pc[c] = "idle"
  /\ pc' = [pc EXCEPT ![c] = "L391"]
  /\ fn' = [fn EXCEPT ![c] = "ClearLastError"]
  /\ UNCHANGED <<libzfsHandle, err, hist>>
  /\ UNCHANGED gostr
  /\ UNCHANGED pureVars

\* LastError() returns v: to the caller, or into ClearLastError's err
\* (line 400: err = LastError()).
LastErrorReturns(c, v) ==
  IF fn[c] = "LastError"
    THEN /\ pc' = [pc EXCEPT ![c] = "idle"]
         /\ fn' = [fn EXCEPT ![c] = "none"]
         /\ Completed(c, "LastError", v)
         /\ UNCHANGED err
    ELSE /\ pc' = [pc EXCEPT ![c] = "L401"]
         /\ err' = [err EXCEPT ![c] = v]
         /\ UNCHANGED <<fn, hist>>

\* Mutant of LastError_L395_memmove: the copy stops one byte early.
LastError_L395_memmove_Truncated(c) ==
  /\ pc[c] = "L395m"
  /\ IF Len(gostr[c].out) + 1 = gostr[c].n
       THEN /\ LastErrorReturns(c, errorsNew(gostr[c].out))
            /\ gostr' = [gostr EXCEPT ![c] = NoGoString]
       ELSE /\ gostr' = [gostr EXCEPT ![c].out =
                 Append(gostr[c].out,
                   libzfs_error_description(libzfsHandle)[Len(gostr[c].out) + 1])]
            /\ UNCHANGED <<pc, fn, err, hist>>
  /\ UNCHANGED libzfsHandle
  /\ UNCHANGED pureVars

\* Mutant of LastError_L395_memmove: reading the description to its end
\* consumes the error.
LastError_L395_memmove_Consuming(c) ==
  /\ pc[c] = "L395m"
  /\ LET out == Append(gostr[c].out,
                  libzfs_error_description(libzfsHandle)[Len(gostr[c].out) + 1])
     IN  IF Len(out) = gostr[c].n
           THEN /\ LastErrorReturns(c, errorsNew(out))
                /\ gostr' = [gostr EXCEPT ![c] = NoGoString]
                /\ libzfsHandle' = clear_last_error(libzfsHandle)
           ELSE /\ gostr' = [gostr EXCEPT ![c].out = out]
                /\ UNCHANGED <<pc, fn, err, hist>>
                /\ UNCHANGED libzfsHandle
  /\ UNCHANGED pureVars

\* Mutant of ClearLastError_L401: the call to C.clear_last_error is missing.
ClearLastError_L401_NoReset(c) ==
  /\ pc[c] = "L401"
  /\ fn[c] = "ClearLastError"
  /\ UNCHANGED libzfsHandle
  /\ pc' = [pc EXCEPT ![c] = "idle"]
  /\ fn' = [fn EXCEPT ![c] = "none"]
  /\ Completed(c, "ClearLastError", err[c])
  /\ err' = [err EXCEPT ![c] = NilErr]
  /\ UNCHANGED gostr
  /\ UNCHANGED pureVars

\* Mutant of ClearLastError_L401: the result is read after the reset, so
\* the call reports what remains.
ClearLastError_L401_ReadAfter(c) ==
  /\ pc[c] = "L401"
  /\ fn[c] = "ClearLastError"
  /\ libzfsHandle' = clear_last_error(libzfsHandle)
  /\ pc' = [pc EXCEPT ![c] = "idle"]
  /\ fn' = [fn EXCEPT ![c] = "none"]
  /\ Completed(c, "ClearLastError",
        IF libzfs_errno(libzfsHandle') = 0
          THEN NilErr
          ELSE errorsNew(GoString(libzfs_error_description(libzfsHandle'))))
  /\ err' = [err EXCEPT ![c] = NilErr]
  /\ UNCHANGED gostr
  /\ UNCHANGED pureVars

\* Lines 391-394: errno := C.libzfs_errno(libzfsHandle);
\* if errno == 0 { return nil }
LastError_L391(c) ==
  /\ pc[c] = "L391"
  /\ IF libzfs_errno(libzfsHandle) = 0
       THEN LastErrorReturns(c, NilErr)
       ELSE /\ pc' = [pc EXCEPT ![c] = "L395"]
            /\ UNCHANGED <<fn, err, hist>>
  /\ UNCHANGED libzfsHandle
  /\ UNCHANGED gostr
  /\ UNCHANGED pureVars

\* Line 395: return errors.New(C.GoString(C.libzfs_error_description(..)))
\* C.GoString first counts the bytes before the first NUL (findnull).  One
\* step reads one byte of the engine's buffer as it is at that moment: a
\* non-NUL byte is counted; a NUL ends the count, and an empty string is
\* returned at once, without a copy.
LastError_L395(c) ==
  /\ pc[c] = "L395"
  /\ IF libzfs_error_description(libzfsHandle)[gostr[c].n + 1] # 0
       THEN /\ gostr' = [gostr EXCEPT ![c].n = gostr[c].n + 1]
            /\ UNCHANGED <<pc, fn, err, hist>>
       ELSE IF gostr[c].n = 0
              THEN /\ LastErrorReturns(c, errorsNew(<<>>))
                   /\ gostr' = [gostr EXCEPT ![c] = NoGoString]
              ELSE /\ pc' = [pc EXCEPT ![c] = "L395m"]
                   /\ UNCHANGED <<fn, err, hist, gostr>>
  /\ UNCHANGED libzfsHandle
  /\ UNCHANGED pureVars

\* Line 395, C.GoString's second pass (memmove): the counted number of
\* bytes is copied out of the engine's buffer, one byte a step, each as it
\* is at that moment; the last byte copied completes the string, which
\* errors.New wraps and LastError returns.
LastError_L395_memmove(c) ==
  /\ pc[c] = "L395m"
  /\ LET out == Append(gostr[c].out,
                  libzfs_error_description(libzfsHandle)[Len(gostr[c].out) + 1])
     IN  IF Len(out) = gostr[c].n
           THEN /\ LastErrorReturns(c, errorsNew(out))
                /\ gostr' = [gostr EXCEPT ![c] = NoGoString]
           ELSE /\ gostr' = [gostr EXCEPT ![c].out = out]
                /\ UNCHANGED <<pc, fn, err, hist>>
  /\ UNCHANGED libzfsHandle
  /\ UNCHANGED pureVars

\* Lines 401-402: C.clear_last_error(libzfsHandle); return (err)
ClearLastError_L401(c) ==
  /\ pc[c] = "L401"
  /\ fn[c] = "ClearLastError"
  /\ libzfsHandle' = clear_last_error(libzfsHandle)
  /\ pc' = [pc EXCEPT ![c] = "idle"]
  /\ fn' = [fn EXCEPT ![c] = "none"]
  /\ Completed(c, "ClearLastError", err[c])
  /\ err' = [err EXCEPT ![c] = NilErr]
  /\ UNCHANGED gostr
  /\ UNCHANGED pureVars

\* ---------------------------------------------------- constant blocks
\* A Go const block with iota: the names in declaration order.  The value
\* of iota in a const spec is its index in the block, counted from 0.
Iota(block, name) ==
  (CHOOSE i \in 1 .. Len(block) : block[i] = name) - 1

\* switch s { case K1: return t1 ... default: return dflt } over constants
\* of a block: the first case whose constant equals s, else the default.
Switch(cases, block, s, dflt) ==
  LET hits == {i \in 1 .. Len(cases) : Iota(block, cases[i][1]) = s}
  IN  IF hits = {}
        THEN dflt
        ELSE cases[CHOOSE i \in hits : \A j \in hits : i <= j][2]

PoolStatusConsts ==
  << "PoolStatusCorruptCache",
     "PoolStatusMissingDevR",
     "PoolStatusMissingDevNr",
     "PoolStatusCorruptLabelR",
     "PoolStatusCorruptLabelNr",
     "PoolStatusBadGUIDSum",
     "PoolStatusCorruptPool",
     "PoolStatusCorruptData",
     "PoolStatusFailingDev",
     "PoolStatusVersionNewer",
     "PoolStatusHostidMismatch",
     "PoolStatusIoFailureWait",
     "PoolStatusIoFailureContinue",
     "PoolStatusBadLog",
     "PoolStatusErrata",
     "PoolStatusUnsupFeatRead",
     "PoolStatusUnsupFeatWrite",
     "PoolStatusFaultedDevR",
     "PoolStatusFaultedDevNr",
     "PoolStatusVersionOlder",
     "PoolStatusFeatDisabled",
     "PoolStatusResilvering",
     "PoolStatusOfflineDev",
     "PoolStatusRemovedDev",
     "PoolStatusOk" >>

PoolStatusCases ==
  << <<"PoolStatusCorruptCache", "corrupt cache">>,
     <<"PoolStatusMissingDevR", "missing device; replicas available">>,
     <<"PoolStatusMissingDevNr",
        "missing device; no replicas available">>,
     <<"PoolStatusCorruptLabelR",
        "bad device label; replicas available">>,
     <<"PoolStatusCorruptLabelNr",
        "bad device label; no replicas available">>,
     <<"PoolStatusBadGUIDSum", "bad device GUID checksum">>,
     <<"PoolStatusCorruptPool", "corrupt pool metadata">>,
     <<"PoolStatusCorruptData", "corrupt user data">>,
     <<"PoolStatusFailingDev", "device(s) failing">>,
     <<"PoolStatusVersionNewer", "on-disk version too new; unsupported">>,
     <<"PoolStatusHostidMismatch",
        "host ID mismatch; last accessed by another system">>,
     <<"PoolStatusIoFailureWait", "failed I/O; failmode is 'wait'">>,
     <<"PoolStatusIoFailureContinue",
        "failed I/O; failmodde is 'continue'">>,
     <<"PoolStatusBadLog", "cannot read log chain(s)">>,
     <<"PoolStatusErrata", "informational errata available">>,
     <<"PoolStatusUnsupFeatRead",
        "pool is using unsupported features that are required for read access">>,
     <<"PoolStatusUnsupFeatWrite",
        "pool is using unsupported features that are required for write access">>,
     <<"PoolStatusFaultedDevR", "device faulted; replicas available">>,
     <<"PoolStatusFaultedDevNr",
        "device faulted; no replicas available">>,
     <<"PoolStatusVersionOlder",
        "on-disk version is old and can be upgraded">>,
     <<"PoolStatusFeatDisabled", "supported features are disabled">>,
     <<"PoolStatusResilvering", "resilvering (scrubbing) in progress">>,
     <<"PoolStatusOfflineDev", "device(s) offline">>,
     <<"PoolStatusRemovedDev", "device(s) removed">>,
     <<"PoolStatusOk", "healthy">> >>

PoolStateConsts ==
  << "PoolStateActive",
     "PoolStateExported",
     "PoolStateDestroyed",
     "PoolStateSpare",
     "PoolStateL2cache",
     "PoolStateUninitialized",
     "PoolStateUnavail",
     "PoolStatePotentiallyActive" >>

PoolStateCases ==
  << <<"PoolStateActive", "active">>,
     <<"PoolStateExported", "exported">>,
     <<"PoolStateDestroyed", "destroyed">>,
     <<"PoolStateSpare", "spare">>,
     <<"PoolStateL2cache", "L2 cache">>,
     <<"PoolStateUninitialized", "uninitialized">>,
     <<"PoolStateUnavail", "unavailable">>,
     <<"PoolStatePotentiallyActive", "potentially active">> >>

\* Mutant of VDevStateConsts: Healthy declared before Degraded.
VDevStateConsts_HealthyEarly ==
  << "VDevStateUnknown", "VDevStateClosed", "VDevStateOffline",
     "VDevStateRemoved", "VDevStateCantOpen", "VDevStateFaulted",
     "VDevStateHealthy", "VDevStateDegraded" >>

\* Mutant of VDevStateConsts: CantOpen declared after Faulted.
VDevStateConsts_CantOpenLate ==
  << "VDevStateUnknown", "VDevStateClosed", "VDevStateOffline",
     "VDevStateRemoved", "VDevStateFaulted", "VDevStateCantOpen",
     "VDevStateDegraded", "VDevStateHealthy" >>

VDevStateConsts ==
  << "VDevStateUnknown",
     "VDevStateClosed",
     "VDevStateOffline",
     "VDevStateRemoved",
     "VDevStateCantOpen",
     "VDevStateFaulted",
     "VDevStateDegraded",
     "VDevStateHealthy" >>

VDevStateCases ==
  << <<"VDevStateUnknown", "uninitialized (or perhaps unknown?)">>,
     <<"VDevStateClosed", "closed">>,
     <<"VDevStateOffline", "offline">>,
     <<"VDevStateRemoved", "removed">>,
     <<"VDevStateCantOpen", "cannot open">>,
     <<"VDevStateFaulted", "faulted">>,
     <<"VDevStateDegraded", "degraded">>,
     <<"VDevStateHealthy", "online">> >>

PoolScanFuncConsts ==
  << "PoolScanFuncNone",
     "PoolScanFuncScrub",
     "PoolScanFuncResilver" >>

PoolScanFuncCases ==
  << <<"PoolScanFuncNone", "none">>,
     <<"PoolScanFuncScrub", "scrub">>,
     <<"PoolScanFuncResilver", "resilver">> >>

DSLScanStateConsts ==
  << "DSLScanStateNone",
     "DSLScanStateScanning",
     "DSLScanStateFinished",
     "DSLScanStateCanceled" >>

DSLScanStateCases ==
  << <<"DSLScanStateNone", "none">>,
     <<"DSLScanStateScanning", "scanning">>,
     <<"DSLScanStateFinished", "finished">>,
     <<"DSLScanStateCanceled", "canceled">> >>

ErrorConsts ==
  << "ESuccess",
     "ENomem",
     "EBadprop",
     "EPropreadonly",
     "EProptype",
     "EPropnoninherit",
     "EPropspace",
     "EBadtype",
     "EBusy",
     "EExists",
     "ENoent",
     "EBadstream",
     "EDsreadonly",
     "EVoltoobig",
     "EInvalidname",
     "EBadrestore",
     "EBadbackup",
     "EBadtarget",
     "ENodevice",
     "EBaddev",
     "ENoreplicas",
     "EResilvering",
     "EBadversion",
     "EPoolunavail",
     "EDevoverflow",
     "EBadpath",
     "ECrosstarget",
     "EZoned",
     "EMountfailed",
     "EUmountfailed",
     "EUnsharenfsfailed",
     "ESharenfsfailed",
     "EPerm",
     "ENospc",
     "EFault",
     "EIo",
     "EIntr",
     "EIsspare",
     "EInvalconfig",
     "ERecursive",
     "ENohistory",
     "EPoolprops",
     "EPoolNotsup",
     "EPoolInvalarg",
     "ENametoolong",
     "EOpenfailed",
     "ENocap",
     "ELabelfailed",
     "EBadwho",
     "EBadperm",
     "EBadpermset",
     "ENodelegation",
     "EUnsharesmbfailed",
     "ESharesmbfailed",
     "EBadcache",
     "EIsl2CACHE",
     "EVdevnotsup",
     "ENotsup",
     "EActiveSpare",
     "EUnplayedLogs",
     "EReftagRele",
     "EReftagHold",
     "ETagtoolong",
     "EPipefailed",
     "EThreadcreatefailed",
     "EPostsplitOnline",
     "EScrubbing",
     "ENoScrub",
     "EDiff",
     "EDiffdata",
     "EPoolreadonly",
     "EUnknown" >>

\* Named constants of the blocks above.
PoolStatusBadGUIDSum == Iota(PoolStatusConsts, "PoolStatusBadGUIDSum")
PoolStatusOk == Iota(PoolStatusConsts, "PoolStatusOk")
VDevStateUnknown == Iota(VDevStateConsts, "VDevStateUnknown")
VDevStateClosed == Iota(VDevStateConsts, "VDevStateClosed")
VDevStateOffline == Iota(VDevStateConsts, "VDevStateOffline")
VDevStateRemoved == Iota(VDevStateConsts, "VDevStateRemoved")
VDevStateCantOpen == Iota(VDevStateConsts, "VDevStateCantOpen")
VDevStateFaulted == Iota(VDevStateConsts, "VDevStateFaulted")
VDevStateDegraded == Iota(VDevStateConsts, "VDevStateDegraded")
VDevStateHealthy == Iota(VDevStateConsts, "VDevStateHealthy")

\* ------------------------------------------------------ String() methods
\* Mutant of PoolStatusString: the default of the other renderers.
PoolStatusString_OtherFallback(s) ==
  Switch(PoolStatusCases, PoolStatusConsts, s, "<UNKNOWN-VALUE>")

PoolStatusString(s) == Switch(PoolStatusCases, PoolStatusConsts, s, "UNKNOWN")

PoolStateString(s) == Switch(PoolStateCases, PoolStateConsts, s, "UNKNOWN")

VDevStateString(s) == Switch(VDevStateCases, VDevStateConsts, s, "UNKNOWN")

PoolScanFuncString(f) ==
  Switch(PoolScanFuncCases, PoolScanFuncConsts, f, "<UNKNOWN-VALUE>")

DSLScanStateString(s) ==
  Switch(DSLScanStateCases, DSLScanStateConsts, s, "<UNKNOWN-VALUE>")

\* "A vdev that's VDevStateCantOpen or below is considered unusable."
isUsable(s) == s > VDevStateCantOpen

\* --------------------------------------------------- error-code constants
\* The error codes are untyped constants of arbitrary precision.  A BigNat
\* is a natural number as little-endian limbs in base 10000, without
\* leading zero limbs (zero is <<0>>).
\* n * m for a small factor 0 < m < 10000, from limb i on.
RECURSIVE BigMulFrom(_, _, _, _)
BigMulFrom(n, m, i, carry) ==
  IF i > Len(n)
    THEN IF carry = 0 THEN <<>> ELSE <<carry>>
    ELSE LET d == n[i] * m + carry
         IN  <<d % 10000>> \o BigMulFrom(n, m, i + 1, d \div 10000)

\* n << k: a multiplication by 2^k, at most 13 bits at a time.
RECURSIVE Shl(_, _)
Shl(n, k) ==
  IF k <= 13
    THEN BigMulFrom(n, 2 ^ k, 1, 0)
    ELSE Shl(BigMulFrom(n, 2 ^ 13, 1, 0), k - 13)

RECURSIVE BigTrim(_)
BigTrim(n) ==
  IF Len(n) > 1 /\ n[Len(n)] = 0 THEN BigTrim(SubSeq(n, 1, Len(n) - 1)) ELSE n

\* a < b
BigLess(a, b) ==
  \/ Len(a) < Len(b)
  \/ /\ Len(a) = Len(b)
     /\ \E i \in 1 .. Len(a) :
          /\ a[i] < b[i]
          /\ \A j \in (i + 1) .. Len(a) : a[j] = b[j]

RECURSIVE BigSubFrom(_, _, _, _)
BigSubFrom(a, b, i, borrow) ==
  IF i > Len(a)
    THEN <<>>
    ELSE LET d == a[i] - (IF i <= Len(b) THEN b[i] ELSE 0) - borrow
         IN  IF d < 0
               THEN <<d + 10000>> \o BigSubFrom(a, b, i + 1, 1)
               ELSE <<d>> \o BigSubFrom(a, b, i + 1, 0)

\* a - b, for a >= b
BigSub(a, b) == BigTrim(BigSubFrom(a, b, 1, 0))

\* The values of the "ZFS errors" block by iota: ESuccess = 0 is explicit,
\* ENomem = 2000 << iota, and every later const spec repeats the expression
\* 2000 << iota with its own iota.
ErrorValues ==
  [i \in 0 .. (Len(ErrorConsts) - 1) |->
     IF i = 0 THEN <<0>> ELSE Shl(<<2000>>, i)]

\* The value of the named error constant.
ErrorValue(name) == ErrorValues[Iota(ErrorConsts, name)]

\* ------------------------------------------------------- pure operations
\* Receivers of the signed type PoolStatus (int).
PoolStatusInputs == (0 - RawSlack) .. (Len(PoolStatusConsts) - 1 + RawSlack)

\* Receivers of an unsigned (uint64) type with n defined values.
UnsignedInputs(n) == 0 .. (n - 1 + RawSlack)

\* PoolStatus.String() on a drawn receiver.
CallPoolStatusString ==
  \E v \in PoolStatusInputs :
    /\ typ' = "PoolStatus"
    /\ raw' = v
    /\ str' = PoolStatusString(v)
    /\ UNCHANGED <<errName, errVal>>
    /\ UNCHANGED engineVars

\* PoolState.String() on a drawn receiver.
CallPoolStateString ==
  \E v \in UnsignedInputs(Len(PoolStateConsts)) :
    /\ typ' = "PoolState"
    /\ raw' = v
    /\ str' = PoolStateString(v)
    /\ UNCHANGED <<errName, errVal>>
    /\ UNCHANGED engineVars

\* VDevState.String() on a drawn receiver.
CallVDevStateString ==
  \E v \in UnsignedInputs(Len(VDevStateConsts)) :
    /\ typ' = "VDevState"
    /\ raw' = v
    /\ str' = VDevStateString(v)
    /\ UNCHANGED <<errName, errVal>>
    /\ UNCHANGED engineVars

\* PoolScanFunc.String() on a drawn receiver.
CallPoolScanFuncString ==
  \E v \in UnsignedInputs(Len(PoolScanFuncConsts)) :
    /\ typ' = "PoolScanFunc"
    /\ raw' = v
    /\ str' = PoolScanFuncString(v)
    /\ UNCHANGED <<errName, errVal>>
    /\ UNCHANGED engineVars

\* DSLScanState.String() on a drawn receiver.
CallDSLScanStateString ==
  \E v \in UnsignedInputs(Len(DSLScanStateConsts)) :
    /\ typ' = "DSLScanState"
    /\ raw' = v
    /\ str' = DSLScanStateString(v)
    /\ UNCHANGED <<errName, errVal>>
    /\ UNCHANGED engineVars

\* A use of one of the error constants.
EvalErrorConst ==
  \E i \in 1 .. Len(ErrorConsts) :
    /\ errName' = ErrorConsts[i]
    /\ errVal' = ErrorValue(ErrorConsts[i])
    /\ UNCHANGED <<typ, raw, str>>
    /\ UNCHANGED engineVars

PureInit ==
  /\ typ = "none"
  /\ raw = 0
  /\ str = ""
  /\ errName = "none"
  /\ errVal = <<0>>

\* -------------------------------------------------------- specifications
Init == EngineInit /\ PureInit

\* Every caller runs on its own goroutine: steps interleave freely.
Next ==
  \E c \in Callers :
    \/ EngineOp(c)
    \/ CallLastError(c)
    \/ CallClearLastError(c)
    \/ LastError_L391(c)
    \/ LastError_L395(c)
    \/ LastError_L395_memmove(c)
    \/ ClearLastError_L401(c)

Spec == Init /\ [][Next]_vars

\* A single caller: no operation runs between a call's entry and return.
SoloCaller == CHOOSE c \in Callers : TRUE

NextSeq ==
  \/ EngineOp(SoloCaller)
  \/ CallLastError(SoloCaller)
  \/ CallClearLastError(SoloCaller)
  \/ LastError_L391(SoloCaller)
  \/ LastError_L395(SoloCaller)
  \/ LastError_L395_memmove(SoloCaller)
  \/ ClearLastError_L401(SoloCaller)

SpecSeq == Init /\ [][NextSeq]_vars

\* The pure part: String() methods and constants, on drawn inputs.
NextFn ==
  \/ CallPoolStatusString
  \/ CallPoolStateString
  \/ CallVDevStateString
  \/ CallPoolScanFuncString
  \/ CallDSLScanStateString
  \/ EvalErrorConst

SpecFn == Init /\ [][NextFn]_vars

\* ================================================================ claims
\* ------------------------------------------------------------------- C1
\* C1: whatever the register held before (an error or none), a LastError()
\* made right after ClearLastError() returned, with no engine operation in
\* between, returns nil.
C1_ClearThenRead ==
  \A c \in Callers :
    (hist[c][1].op = "LastError" /\ hist[c][2].op = "ClearLastError") =>
      hist[c][1].res = NilErr

\* A clear that found an error, followed by a read that found none.
C1_Witness ==
  \E c \in Callers :
    /\ hist[c][1] = [op |-> "LastError", res |-> NilErr]
    /\ hist[c][2].op = "ClearLastError"
    /\ ~hist[c][2].res.nil

\* ------------------------------------------------------------------- C2
\* C2: LastError() returns nil exactly when the handle's error number is 0;
\* otherwise it returns a non-nil error whose message is the engine's
\* description as it stands: every byte before the first NUL, in order, and
\* nothing else.
C2_LastErrorResult ==
  \A c \in Callers :
    hist[c][1].op = "LastError" =>
      LET r == hist[c][1].res
          d == libzfsHandle.libzfs_desc
      IN  /\ r.nil <=> libzfsHandle.libzfs_error = 0
          /\ r.nil => r = NilErr
          /\ ~r.nil =>
               /\ Len(r.msg) < Len(d)
               /\ \A i \in 1 .. Len(r.msg) : r.msg[i] = d[i] /\ d[i] # 0
               /\ d[Len(r.msg) + 1] = 0

\* A recorded error has been read, with a description of at least one byte.
C2_Witness ==
  \E c \in Callers :
    /\ hist[c][1].op = "LastError"
    /\ ~hist[c][1].res.nil
    /\ Len(hist[c][1].res.msg) >= 1
    /\ libzfsHandle.libzfs_error # 0

\* ------------------------------------------------------------------- C3
\* C3: with a single caller, ClearLastError() returns what LastError()
\* returned, or would have returned, just before it: the result of a
\* LastError() that directly preceded it, the error of a failed engine
\* operation that directly preceded it, and nil when the register was
\* empty (at the start, or directly after another clear); never the empty
\* state it leaves behind.
C3_ClearReturnsCleared ==
  \A c \in Callers :
    hist[c][1].op = "ClearLastError" =>
      /\ hist[c][2].op = "LastError" => hist[c][1].res = hist[c][2].res
      /\ (hist[c][2].op = "EngineOp" /\ ~hist[c][2].res.nil) =>
           hist[c][1].res = hist[c][2].res
      /\ hist[c][2].op \in {"ClearLastError", "none"} =>
           hist[c][1].res = NilErr

\* A failed engine operation, then a clear that returned its error and
\* left the register empty.
C3_Witness ==
  \E c \in Callers :
    /\ hist[c][1].op = "ClearLastError"
    /\ hist[c][2].op = "EngineOp"
    /\ ~hist[c][1].res.nil
    /\ hist[c][1].res = hist[c][2].res
    /\ libzfsHandle.libzfs_error = 0

\* ------------------------------------------------------------------- C4
\* C4: LastError() leaves the register as it found it: none of its steps
\* changes the handle's error number or description, and two LastError()
\* calls in a row, with nothing in between, return the same result.
C4_LastErrorReadOnly ==
  /\ [][\A c \in Callers :
          pc[c] \in {"L391", "L395", "L395m"} =>
            libzfsHandle' = libzfsHandle]_vars
  /\ [](\A c \in Callers :
          (hist[c][1].op = "LastError" /\ hist[c][2].op = "LastError") =>
            hist[c][1].res = hist[c][2].res)

\* Two reads in a row of a recorded error, which is still recorded.
C4_Witness ==
  \E c \in Callers :
    /\ hist[c][1].op = "LastError"
    /\ hist[c][2].op = "LastError"
    /\ ~hist[c][1].res.nil
    /\ hist[c][1].res = hist[c][2].res
    /\ libzfsHandle.libzfs_error # 0

\* ------------------------------------------------------------------- C5
\* C5: with concurrent callers, nothing of another caller takes effect
\* between a caller's failed engine operation and that caller's next read
\* or clear of the error: the error it then gets is the one its own
\* operation produced.
C5_OwnErrorRead ==
  \A c \in Callers :
    ( /\ hist[c][1].op \in {"LastError", "ClearLastError"}
      /\ hist[c][2].op = "EngineOp"
      /\ ~hist[c][2].res.nil ) =>
      hist[c][1].res = hist[c][2].res

\* ------------------------------------------------------------------ C10
\* C10: with concurrent callers, ClearLastError() loses no error: whenever
\* its reset erases a recorded error, the call returns that very error.
C10_NoErrorLost ==
  [][\A c \in Callers :
       ( /\ pc[c] = "L401"
         /\ pc'[c] = "idle"
         /\ libzfsHandle.libzfs_error # 0
         /\ libzfsHandle'.libzfs_error = 0 ) =>
         hist'[c][1].res =
           errorsNew(GoString(libzfsHandle.libzfs_desc))]_vars

\* ------------------------------------------------------------------- C6
\* C6: every String() method is total with an explicit fallback.
\* PoolStatus (defined 0..24), PoolState (0..7) and VDevState (0..7)
\* render each defined value as a description other than "UNKNOWN" and
\* every other integer, negative PoolStatus values included, as "UNKNOWN";
\* PoolScanFunc (0..2) and DSLScanState (0..3) render each defined value as
\* its fixed name and every other value as "<UNKNOWN-VALUE>"; and
\* PoolStatusBadGUIDSum (5) renders "bad device GUID checksum".
C6_RenderersTotal ==
  /\ typ = "PoolStatus" =>
       /\ raw \in 0 .. 24 => str \notin {"UNKNOWN", "<UNKNOWN-VALUE>", ""}
       /\ raw \notin 0 .. 24 => str = "UNKNOWN"
       /\ raw = 5 => raw = PoolStatusBadGUIDSum
                       /\ str = "bad device GUID checksum"
  /\ typ \in {"PoolState", "VDevState"} =>
       /\ raw \in 0 .. 7 => str \notin {"UNKNOWN", "<UNKNOWN-VALUE>", ""}
       /\ raw \notin 0 .. 7 => str = "UNKNOWN"
  /\ typ = "PoolScanFunc" =>
       /\ raw = 0 => str = "none"
       /\ raw = 1 => str = "scrub"
       /\ raw = 2 => str = "resilver"
       /\ raw \notin 0 .. 2 => str = "<UNKNOWN-VALUE>"
  /\ typ = "DSLScanState" =>
       /\ raw = 0 => str = "none"
       /\ raw = 1 => str = "scanning"
       /\ raw = 2 => str = "finished"
       /\ raw = 3 => str = "canceled"
       /\ raw \notin 0 .. 3 => str = "<UNKNOWN-VALUE>"

\* A negative PoolStatus has been rendered, and came out as the fallback.
C6_Witness == typ = "PoolStatus" /\ raw < 0 /\ str = "UNKNOWN"

\* ------------------------------------------------------------------- C7
\* C7: the eight VDevState constants are strictly ordered by value,
\* Unknown(0) < Closed < Offline < Removed < CantOpen < Faulted < Degraded
\* < Healthy(7); so they are pairwise distinct, and among the defined
\* states only the one rendered as the uninitialized state attains the
\* minimum and only the one rendered "online" attains the maximum.
C7_VDevStateOrder ==
  /\ VDevStateUnknown = 0
  /\ VDevStateUnknown < VDevStateClosed
  /\ VDevStateClosed < VDevStateOffline
  /\ VDevStateOffline < VDevStateRemoved
  /\ VDevStateRemoved < VDevStateCantOpen
  /\ VDevStateCantOpen < VDevStateFaulted
  /\ VDevStateFaulted < VDevStateDegraded
  /\ VDevStateDegraded < VDevStateHealthy
  /\ VDevStateHealthy = 7
  /\ (typ = "VDevState" /\ str # "UNKNOWN") =>
       /\ VDevStateUnknown <= raw
       /\ raw <= VDevStateHealthy
       /\ raw = VDevStateUnknown <=> str = "uninitialized (or perhaps unknown?)"
       /\ raw = VDevStateHealthy <=> str = "online"

\* The maximum of the scale has been rendered.
C7_Witness == typ = "VDevState" /\ raw = VDevStateHealthy /\ str = "online"

\* ------------------------------------------------------------------- C8
\* C8: the rule "usable iff greater than VDevStateCantOpen" makes, of the
\* defined vdev states, exactly Unknown, Closed, Offline, Removed and
\* CantOpen unusable and exactly Faulted, Degraded and Healthy usable; and
\* VDevStateCantOpen renders "cannot open" and is unusable.
C8_UsabilityBoundary ==
  /\ {s \in 0 .. 7 : isUsable(s)} =
       {VDevStateFaulted, VDevStateDegraded, VDevStateHealthy}
  /\ {s \in 0 .. 7 : ~isUsable(s)} =
       {VDevStateUnknown, VDevStateClosed, VDevStateOffline,
        VDevStateRemoved, VDevStateCantOpen}
  /\ (typ = "VDevState" /\ str # "UNKNOWN") =>
       /\ isUsable(raw) <=> str \in {"faulted", "degraded", "online"}
       /\ ~isUsable(raw) <=>
            str \in {"uninitialized (or perhaps unknown?)", "closed",
                     "offline", "removed", "cannot open"}
       /\ raw = VDevStateCantOpen => str = "cannot open" /\ ~isUsable(raw)

\* The boundary state itself has been rendered and is unusable.
C8_Witness ==
  /\ typ = "VDevState"
  /\ raw = VDevStateCantOpen
  /\ str = "cannot open"
  /\ ~isUsable(raw)

\* ------------------------------------------------------------------- C9
\* C9: ESuccess is 0 and the codes ENomem .. EUnknown are separated by a
\* fixed stride: the difference between each code and the next one declared
\* is the same constant (the difference between ENomem and EBadprop), so
\* every code has a value of its own.
C9_FixedStride ==
  /\ ErrorValue("ESuccess") = <<0>>
  /\ errName \notin {"none", "ESuccess", "EUnknown"} =>
       LET next == ErrorConsts[Iota(ErrorConsts, errName) + 2]
       IN  BigSub(ErrorValue(next), errVal) =
             BigSub(ErrorValue("EBadprop"), ErrorValue("ENomem"))
  /\ errName # "none" =>
       \A i \in 1 .. Len(ErrorConsts) :
         ErrorValue(ErrorConsts[i]) = errVal => ErrorConsts[i] = errName

\* ------------------------------------------------------------------ C11
\* C11: every error code from ENomem (iota 1) through EUnknown (iota 71),
\* computed as 2000 << iota, is less than 2^63, and so is representable as
\* a signed 64-bit integer.
C11_FitsInt64 ==
  /\ Iota(ErrorConsts, "ENomem") = 1
  /\ Iota(ErrorConsts, "EUnknown") = 71
  /\ errName \notin {"none", "ESuccess"} =>
       BigLess(errVal, Shl(<<1>>, 63))
====
